---- MODULE Spec2Model ----
(***************************************************************************)
(* LittleLemon REST backend (src/LittleLemonDRF/views-function.py and      *)
(* serializers.py): the persisted rows, the group rosters and one action   *)
(* per request handler.  A request body is a function from field names to  *)
(* values; a serializer is modelled by the fields it declares, so that a   *)
(* handler which hands a serializer the wrong keys fails as the code does. *)
(***************************************************************************)
EXTENDS Integers, Sequences, FiniteSets, TLC

\* ---------------------------------------------------------------- bounds
NumUsers == 3
NumProcs == 2
MaxQty == 2
MaxSeq == 3
NumOrders == 1
MaxItems == 4
MaxPerPage == 3

\* ------------------------------------------------------- program constants
HTTP_200_OK == 200
HTTP_201_CREATED == 201
HTTP_204_NO_CONTENT == 204
HTTP_205_RESET_CONTENT == 205
HTTP_400_BAD_REQUEST == 400
HTTP_401_UNAUTHORIZED == 401
HTTP_403_FORBIDDEN == 403
HTTP_404_NOT_FOUND == 404
HTTP_500_SERVER_ERROR == 500
DefaultPerPage == 2
DefaultPage == 1

\* ------------------------------------------------------------- the domain
Users == 1..NumUsers
Procs == 1..NumProcs
\* request.user of an unauthenticated request (AnonymousUser): in no group
Anon == 0
\* a null reference
Null == 0

VARIABLES
  managers,     \* members of the group "Manager"
  crews,        \* members of the group "Delivery crew"
  categories,   \* Category rows
  menu,    \* MenuItem rows
  carts,        \* Cart rows
  orders,       \* Order rows
  orderitems,   \* OrderItem rows
  seq,          \* the next primary key of each table
  ratings,      \* Rating rows
  converted,    \* history: per Cart id, the rows checkout wrote from it
  inflight,     \* per worker: the request it is in the middle of
  resp          \* the response of the request that completed last

vars == <<managers, crews, categories, menu, carts, orders, orderitems,
          ratings, converted, seq, inflight, resp>>

\* ------------------------------------------------------------ request data
EmptyData == [k \in {} |-> 0]

Has(data, k) == k \in DOMAIN data

\* validated_data of a serializer carries a field only if the data had it
Field(data, k) == IF k \in DOMAIN data THEN data[k] ELSE Null

Response(op, user, id, status, body) ==
  [op |-> op, user |-> user, id |-> id, status |-> status, body |-> body]

Pending == Response("pending", Anon, 0, 0, <<>>)

Idle == [op |-> "idle", user |-> Anon, cart |-> EmptyData, data |-> EmptyData]

\* a role check that takes every authenticated user for a Manager
IsManager_authenticated(u) == u # Anon

\* request.user.groups.filter(name="Manager").exists()
IsManager(u) == u \in managers

\* request.user.groups.filter(name="Delivery crew").exists()
IsDeliveryCrew(u) == u \in crews

\* the rows of a table in primary-key order
RECURSIVE ById(_)
ById(rows) ==
  IF rows = {} THEN <<>>
  ELSE LET r == CHOOSE x \in rows : \A y \in rows : x.id <= y.id
       IN <<r>> \o ById(rows \ {r})

Ids(rowseq) == [i \in DOMAIN rowseq |-> rowseq[i].id]

RECURSIVE Sorted(_)
Sorted(S) ==
  IF S = {} THEN <<>>
  ELSE LET m == CHOOSE x \in S : \A y \in S : x <= y
       IN <<m>> \o Sorted(S \ {m})

\* ------------------------------------------------------------------ groups
\* the bodies a client sends to the roster endpoints: no username, an empty
\* one (0), the username of a user, or a username nobody has (NumUsers + 1)
UsernameData ==
  {EmptyData} \cup {[username |-> n] : n \in 0..(NumUsers + 1)}

\* a manager_set without the check of the requester's group
manager_set_result_open(u, method, data) ==
  IF method = "POST" /\ Has(data, "username") /\ data.username \in Users
  THEN [roster |-> managers \cup {data.username},
        resp |-> Response("manager_set", u, data.username, HTTP_201_CREATED, <<>>)]
  ELSE [roster |-> managers,
        resp |-> Response("manager_set", u, 0, HTTP_200_OK, Sorted(managers))]

\* manager_set: GET lists the managers, POST adds the user named in the body;
\* both for a Manager only.  The new roster and the response.
manager_set_result(u, method, data) ==
  IF ~IsManager(u)
  THEN [roster |-> managers, resp |-> Response("manager_set", u, 0, HTTP_403_FORBIDDEN, <<>>)]
  ELSE IF method = "POST"
  THEN IF ~Has(data, "username")
       THEN [roster |-> managers,
             resp |-> Response("manager_set", u, 0, HTTP_500_SERVER_ERROR, <<>>)]
       ELSE IF data.username = 0
       THEN [roster |-> managers,
             resp |-> Response("manager_set", u, 0, HTTP_400_BAD_REQUEST, <<>>)]
       ELSE IF data.username \notin Users
       THEN [roster |-> managers,
             resp |-> Response("manager_set", u, data.username, HTTP_404_NOT_FOUND, <<>>)]
       ELSE [roster |-> managers \cup {data.username},
             resp |-> Response("manager_set", u, data.username, HTTP_201_CREATED, <<>>)]
  ELSE [roster |-> managers,
        resp |-> Response("manager_set", u, 0, HTTP_200_OK, Sorted(managers))]

manager_set(u, method, data) ==
  LET r == manager_set_result(u, method, data)
  IN /\ managers' = r.roster
     /\ resp' = r.resp
     /\ UNCHANGED <<ratings, converted, crews, categories, menu, carts, orders, orderitems,
                    seq, inflight>>

\* manager_delete: a Manager removes a user from the managers.  The member is
\* removed before the message is built; building it adds a str and the bound
\* method user.get_username, which raises, so the answer is a 500.
manager_delete_result(u, id) ==
  IF ~IsManager(u)
  THEN [roster |-> managers, resp |-> Response("manager_delete", u, id, HTTP_403_FORBIDDEN, <<>>)]
  ELSE IF id \notin Users
  THEN [roster |-> managers, resp |-> Response("manager_delete", u, id, HTTP_404_NOT_FOUND, <<>>)]
  ELSE IF id \in managers
  THEN [roster |-> managers \ {id},
        resp |-> Response("manager_delete", u, id, HTTP_500_SERVER_ERROR, <<>>)]
  ELSE [roster |-> managers, resp |-> Response("manager_delete", u, id, HTTP_400_BAD_REQUEST, <<>>)]

manager_delete(u, id) ==
  LET r == manager_delete_result(u, id)
  IN /\ managers' = r.roster
     /\ resp' = r.resp
     /\ UNCHANGED <<ratings, converted, crews, categories, menu, carts, orders, orderitems,
                    seq, inflight>>

\* delivery_set: GET lists the delivery crew, POST adds the user named in the body;
\* both for a Manager only.  The new roster and the response.
delivery_set_result(u, method, data) ==
  IF ~IsManager(u)
  THEN [roster |-> crews, resp |-> Response("delivery_set", u, 0, HTTP_403_FORBIDDEN, <<>>)]
  ELSE IF method = "POST"
  THEN IF ~Has(data, "username")
       THEN [roster |-> crews,
             resp |-> Response("delivery_set", u, 0, HTTP_500_SERVER_ERROR, <<>>)]
       ELSE IF data.username = 0
       THEN [roster |-> crews,
             resp |-> Response("delivery_set", u, 0, HTTP_400_BAD_REQUEST, <<>>)]
       ELSE IF data.username \notin Users
       THEN [roster |-> crews,
             resp |-> Response("delivery_set", u, data.username, HTTP_404_NOT_FOUND, <<>>)]
       ELSE [roster |-> crews \cup {data.username},
             resp |-> Response("delivery_set", u, data.username, HTTP_201_CREATED, <<>>)]
  ELSE [roster |-> crews,
        resp |-> Response("delivery_set", u, 0, HTTP_200_OK, Sorted(crews))]

delivery_set(u, method, data) ==
  LET r == delivery_set_result(u, method, data)
  IN /\ crews' = r.roster
     /\ resp' = r.resp
     /\ UNCHANGED <<ratings, converted, managers, categories, menu, carts, orders, orderitems,
                    seq, inflight>>

\* delivery_delete: a Manager removes a user from the delivery crew.  The member is
\* removed before the message is built; building it adds a str and the bound
\* method user.get_username, which raises, so the answer is a 500.
delivery_delete_result(u, id) ==
  IF ~IsManager(u)
  THEN [roster |-> crews, resp |-> Response("delivery_delete", u, id, HTTP_403_FORBIDDEN, <<>>)]
  ELSE IF id \notin Users
  THEN [roster |-> crews, resp |-> Response("delivery_delete", u, id, HTTP_404_NOT_FOUND, <<>>)]
  ELSE IF id \in crews
  THEN [roster |-> crews \ {id},
        resp |-> Response("delivery_delete", u, id, HTTP_500_SERVER_ERROR, <<>>)]
  ELSE [roster |-> crews, resp |-> Response("delivery_delete", u, id, HTTP_400_BAD_REQUEST, <<>>)]

delivery_delete(u, id) ==
  LET r == delivery_delete_result(u, id)
  IN /\ crews' = r.roster
     /\ resp' = r.resp
     /\ UNCHANGED <<ratings, converted, managers, categories, menu, carts, orders, orderitems,
                    seq, inflight>>

GroupNext ==
  \/ \E u \in Users, m \in {"GET", "POST"}, d \in UsernameData :
       manager_set(u, m, d)
  \/ \E u \in Users, id \in 1..(NumUsers + 1) : manager_delete(u, id)
  \/ \E u \in Users, m \in {"GET", "POST"}, d \in UsernameData :
       delivery_set(u, m, d)
  \/ \E u \in Users, id \in 1..(NumUsers + 1) : delivery_delete(u, id)

\* ------------------------------------------------------------- serializers
\* every body that gives some of the fields of vals one of their values
PartialData(vals) ==
  UNION {{d \in [S -> UNION {vals[k] : k \in S}] : \A k \in S : d[k] \in vals[k]}
           : S \in SUBSET DOMAIN vals}

\* ModelSerializer.is_valid: without partial=True every required field must
\* be in the data; a field the data carries must hold a valid value
IsValid(data, required, partial, okvalues) ==
  /\ partial \/ required \subseteq DOMAIN data
  /\ okvalues

\* ModelSerializer.update: the declared writable fields the data carries
\* overwrite the row, the rest of the row stays
Update(row, data, writable) ==
  [f \in DOMAIN row |-> IF f \in writable /\ f \in DOMAIN data
                        THEN data[f] ELSE row[f]]

\* django.core.paginator.Paginator(rows, per_page).page(number); EmptyPage is
\* caught by the handlers and turned into the empty list
NumPages(count, perpage) ==
  IF count = 0 THEN 1 ELSE (count + perpage - 1) \div perpage

\* a Paginator that counts the pages from 0
Paginate_zero_based(rows, perpage, page) ==
  IF page < 0 \/ page >= NumPages(Len(rows), perpage) THEN <<>>
  ELSE LET bottom == page * perpage
           top == IF bottom + perpage >= Len(rows) THEN Len(rows)
                  ELSE bottom + perpage
       IN SubSeq(rows, bottom + 1, top)

\* Paginator.page(number): the rows bottom+1 .. top of page number, counted
\* from 1; no rows (EmptyPage) below page 1 and past the last page
Paginate(rows, perpage, page) ==
  IF page < 1 \/ page > NumPages(Len(rows), perpage) THEN <<>>
  ELSE LET bottom == (page - 1) * perpage
           top == IF bottom + perpage >= Len(rows) THEN Len(rows)
                  ELSE bottom + perpage
       IN SubSeq(rows, bottom + 1, top)

\* validate_number refuses a page below 1 (EmptyPage) before it counts the
\* pages; counting them divides by per_page, a ZeroDivisionError nobody
\* catches when per_page is 0
PageRaises(perpage, page) == perpage = 0 /\ page >= 1

\* a query parameter the client did not send
NotSent == -1

\* request.query_params.get("perpage", default=2) and get("page", default=1)
PerPage(q) == IF q.perpage = NotSent THEN DefaultPerPage ELSE q.perpage
PageNo(q) == IF q.page = NotSent THEN DefaultPage ELSE q.page

\* no query parameters
NoQuery == [to_price |-> 0, perpage |-> NotSent, page |-> NotSent]

\* the id of the response to a listing: 1 when query parameters were sent
Sent(q) == IF q = NoQuery THEN 0 ELSE 1

\* the response to a listing, which remembers the query it answers
Listing(op, user, q, status, body) ==
  [op |-> op, user |-> user, id |-> Sent(q), status |-> status, body |-> body,
   query |-> q]

\* -------------------------------------------------------------- categories
MaxCategoryId == 1
\* titles and slugs, as codes
Titles == {1, 2}
Slugs == {1}

CategoryWritable == {"title", "slug"}
\* Category.title and Category.slug have no default (models.py)
CategoryRequired == {"title", "slug"}

CategoryVals == [title |-> Titles, slug |-> Slugs]
CategoryData == PartialData(CategoryVals)

CategoryById(id) == {c \in categories : c.id = id}

\* MenuItem.category protects the Category it references (models.py)
CategoryProtected(id) == \E m \in menu : m.category = id

\* /api/category: GET for every authenticated user, POST for a Manager
category(u, method, data) ==
  /\ IF method = "GET"
     THEN /\ resp' = Response("category_" \o method, u, 0, HTTP_200_OK, Ids(ById(categories)))
          /\ UNCHANGED <<categories, seq>>
     ELSE IF IsManager(u)
     THEN IF IsValid(data, CategoryRequired, FALSE, TRUE)
          THEN /\ seq.category <= MaxCategoryId
               /\ categories' = categories \cup
                    {[id |-> seq.category, title |-> data.title, slug |-> data.slug]}
               /\ seq' = [seq EXCEPT !.category = @ + 1]
               /\ resp' = Response("category_" \o method, u, seq.category, HTTP_201_CREATED, <<>>)
          ELSE /\ resp' = Response("category_" \o method, u, 0, HTTP_400_BAD_REQUEST, <<>>)
               /\ UNCHANGED <<categories, seq>>
     ELSE /\ resp' = Response("category_" \o method, u, 0, HTTP_403_FORBIDDEN, <<>>)
          /\ UNCHANGED <<categories, seq>>
  /\ UNCHANGED <<ratings, converted, managers, crews, menu, carts, orders, orderitems, inflight>>

\* /api/category/{id}: GET for every authenticated user, POST for nobody,
\* PUT, PATCH and DELETE for a Manager
category_single(u, method, id, data) ==
  /\ IF CategoryById(id) = {}
     THEN /\ resp' = Response("category_single_" \o method, u, id, HTTP_404_NOT_FOUND, <<>>)
          /\ UNCHANGED categories
     ELSE LET item == CHOOSE c \in categories : c.id = id IN
       IF method = "GET"
       THEN /\ resp' = Response("category_single_" \o method, u, id, HTTP_200_OK, <<id>>)
            /\ UNCHANGED categories
       ELSE IF method = "POST" \/ ~IsManager(u)
       THEN /\ resp' = Response("category_single_" \o method, u, id, HTTP_403_FORBIDDEN, <<>>)
            /\ UNCHANGED categories
       ELSE IF method \in {"PUT", "PATCH"}
       THEN IF IsValid(data, CategoryRequired, method = "PATCH", TRUE)
            THEN /\ categories' = (categories \ {item}) \cup
                                    {Update(item, data, CategoryWritable)}
                 /\ resp' = Response("category_single_" \o method, u, id,
                                     HTTP_205_RESET_CONTENT, <<id>>)
            ELSE /\ resp' = Response("category_single_" \o method, u, id,
                                     HTTP_400_BAD_REQUEST, <<>>)
                 /\ UNCHANGED categories
       ELSE IF CategoryProtected(id)
       THEN /\ resp' = Response("category_single_" \o method, u, id,
                                HTTP_500_SERVER_ERROR, <<>>)
            /\ UNCHANGED categories
       ELSE /\ categories' = categories \ {item}
            /\ resp' = Response("category_single_" \o method, u, id, HTTP_204_NO_CONTENT, <<>>)
  /\ UNCHANGED <<ratings, converted, managers, crews, menu, carts, orders, orderitems, seq,
                 inflight>>

\* -------------------------------------------------------------- menu items
MaxMenuItemId == 1
Prices == {2, 3}

MenuItemWritable == {"title", "price", "category"}
\* MenuItem.title, price and category have no default (models.py)
MenuItemRequired == {"title", "price", "category"}

\* the bodies of the clients: a title, and maybe a price and the key of the
\* first Category or of none (MaxCategoryId + 1)
MenuItemVals ==
  [title |-> {1}, price |-> Prices, category |-> {1, MaxCategoryId + 1}]
MenuItemData == {d \in PartialData(MenuItemVals) : Has(d, "title")}

\* PrimaryKeyRelatedField(queryset=Category.objects.all())
MenuItemValues(data) ==
  Has(data, "category") => CategoryById(data.category) # {}

MenuItemById(id) == {m \in menu : m.id = id}

\* the query parameters of GET /api/menu-items that the model follows:
\* to_price (0: not sent), perpage and page
MenuQuery == [to_price : {0, 2}, perpage : {NotSent, 1}, page : {NotSent, 2}]

\* Cart.menuitem and OrderItem.menuitem go with their MenuItem (models.py)
MenuItemCascade(rows, id) == {r \in rows : r.menuitem # id}

\* /api/menu-items: GET for everybody, POST for a Manager
menuitems(u, method, q, data) ==
  /\ IF method = "GET"
     THEN LET items == {m \in menu : q.to_price # 0 => m.price <= q.to_price}
          IN /\ resp' =
                  IF PageRaises(PerPage(q), PageNo(q))
                  THEN Listing("menuitems_" \o method, u, q, HTTP_500_SERVER_ERROR, <<>>)
                  ELSE Listing("menuitems_" \o method, u, q, HTTP_200_OK,
                               Ids(Paginate(ById(items), PerPage(q), PageNo(q))))
             /\ UNCHANGED <<menu, seq>>
     ELSE IF IsManager(u)
     THEN IF IsValid(data, MenuItemRequired, FALSE, MenuItemValues(data))
          THEN /\ seq.menuitem <= MaxMenuItemId
               /\ menu' = menu \cup
                    {[id |-> seq.menuitem, title |-> data.title, price |-> data.price,
                      category |-> data.category, featured |-> FALSE]}
               /\ seq' = [seq EXCEPT !.menuitem = @ + 1]
               /\ resp' = Response("menuitems_" \o method, u, seq.menuitem, HTTP_201_CREATED, <<>>)
          ELSE /\ resp' = Response("menuitems_" \o method, u, 0, HTTP_400_BAD_REQUEST, <<>>)
               /\ UNCHANGED <<menu, seq>>
     ELSE /\ resp' = Response("menuitems_" \o method, u, 0, HTTP_403_FORBIDDEN, <<>>)
          /\ UNCHANGED <<menu, seq>>
  /\ UNCHANGED <<ratings, converted, managers, crews, categories, carts, orders, orderitems, inflight>>

\* /api/menu-items/{id}: GET for everybody, PUT, PATCH and DELETE for a
\* Manager.  DELETE answers Response(status.HTTP_204_NO_CONTENT): the 204 is
\* the body of a 200.
menuitems_single(u, method, id, data) ==
  /\ IF MenuItemById(id) = {}
     THEN /\ resp' = Response("menuitems_single_" \o method, u, id, HTTP_404_NOT_FOUND, <<>>)
          /\ UNCHANGED <<menu, carts, orderitems>>
     ELSE LET item == CHOOSE m \in menu : m.id = id IN
       IF method = "GET"
       THEN /\ resp' = Response("menuitems_single_" \o method, u, id, HTTP_200_OK, <<id>>)
            /\ UNCHANGED <<menu, carts, orderitems>>
       ELSE IF ~IsManager(u)
       THEN /\ resp' = Response("menuitems_single_" \o method, u, id, HTTP_403_FORBIDDEN, <<>>)
            /\ UNCHANGED <<menu, carts, orderitems>>
       ELSE IF method \in {"PUT", "PATCH"}
       THEN IF IsValid(data, MenuItemRequired, method = "PATCH", MenuItemValues(data))
            THEN /\ menu' = (menu \ {item}) \cup
                                   {Update(item, data, MenuItemWritable)}
                 /\ resp' = Response("menuitems_single_" \o method, u, id,
                                     HTTP_205_RESET_CONTENT, <<id>>)
                 /\ UNCHANGED <<carts, orderitems>>
            ELSE /\ resp' = Response("menuitems_single_" \o method, u, id,
                                     HTTP_400_BAD_REQUEST, <<>>)
                 /\ UNCHANGED <<menu, carts, orderitems>>
       ELSE /\ menu' = menu \ {item}
            /\ carts' = MenuItemCascade(carts, id)
            /\ orderitems' = MenuItemCascade(orderitems, id)
            /\ resp' = Response("menuitems_single_" \o method, u, id, HTTP_200_OK,
                                <<HTTP_204_NO_CONTENT>>)
  /\ UNCHANGED <<ratings, converted, managers, crews, categories, orders, seq, inflight>>

MenuNext ==
  \/ \E u \in Users : category(u, "GET", EmptyData)
  \/ \E u \in Users, d \in CategoryData : category(u, "POST", d)
  \/ \E u \in Users, m \in {"GET", "POST", "DELETE"}, id \in 1..(MaxCategoryId + 1) :
       category_single(u, m, id, EmptyData)
  \/ \E u \in Users, m \in {"PUT", "PATCH"}, id \in 1..(MaxCategoryId + 1),
        d \in CategoryData :
       category_single(u, m, id, d)
  \/ \E u \in Users \cup {Anon}, q \in MenuQuery : menuitems(u, "GET", q, EmptyData)
  \/ \E u \in Users \cup {Anon}, d \in MenuItemData : menuitems(u, "POST", NoQuery, d)
  \/ \E u \in Users \cup {Anon}, m \in {"GET", "DELETE"}, id \in 1..(MaxMenuItemId + 1) :
       menuitems_single(u, m, id, EmptyData)
  \/ \E u \in Users \cup {Anon}, m \in {"PUT", "PATCH"}, id \in 1..(MaxMenuItemId + 1),
        d \in MenuItemData :
       menuitems_single(u, m, id, d)

\* -------------------------------------------------------------------- cart
CartOf(u) == {c \in carts : c.user = u}

\* the bodies of POST /api/cart/menu-items: with or without the two keys the
\* handler reads, naming the first MenuItem or none (MaxSeq + 1)
CartVals == [menuitem |-> {1, MaxSeq + 1}, quantity |-> 1..MaxQty]
CartData == PartialData(CartVals)

CartWritable == {"user", "menuitem", "unit_price", "quantity"}
\* Cart.menuitem, unit_price and quantity have no default (models.py)
CartRequired == {"menuitem", "unit_price", "quantity"}

\* a cart() that names the keys as CartSerializer names its fields
CartPostData_named(u, body, unit_price) ==
  [menuitem |-> body.menuitem, quantity |-> body.quantity,
   unit_price |-> unit_price, price |-> body.quantity * unit_price,
   user |-> u]

\* the dictionary cart() builds for CartSerializer
CartPostData(u, body, unit_price) ==
  [menuitem_id |-> body.menuitem, quantity |-> body.quantity,
   unit_price |-> unit_price, price |-> body.quantity * unit_price,
   user_id |-> u]

\* CartSerializer(data=data, context=...).is_valid(raise_exception=True):
\* "valid", "invalid" (ValidationError) or "error".  The field user comes
\* first; without it in the data its default CurrentUserDefault() reads
\* context["request"], a KeyError when the serializer was given no context
\* (ctx = Anon).
CartSerializer_is_valid(data, ctx) ==
  IF ~Has(data, "user") /\ ctx = Anon THEN "error"
  ELSE IF /\ CartRequired \cap CartWritable \subseteq DOMAIN data
          /\ Has(data, "user") => data.user \in Users
          /\ MenuItemById(data.menuitem) # {}
  THEN "valid"
  ELSE "invalid"

\* CartSerializer.validate and save(): price = quantity * unit_price
CartSerializer_save(data, ctx, id) ==
  [id |-> id, user |-> IF Has(data, "user") THEN data.user ELSE ctx,
   menuitem |-> data.menuitem, quantity |-> data.quantity,
   unit_price |-> data.unit_price, price |-> data.quantity * data.unit_price]

\* GET /api/cart/menu-items: Cart.objects.get inside a bare try/except
cart_get(u) ==
  /\ resp' = IF Cardinality(CartOf(u)) = 1
             THEN Response("cart_get", u, 0, HTTP_200_OK, Ids(ById(CartOf(u))))
             ELSE Response("cart_get", u, 0, HTTP_400_BAD_REQUEST, <<>>)
  /\ UNCHANGED <<ratings, converted, managers, crews, categories, menu, carts, orders, orderitems,
                 seq, inflight>>

\* a cart() that does not look for a Cart of the user first
cart_post_check_unguarded(p, u) ==
  /\ inflight[p] = Idle
  /\ resp' = Pending
  /\ inflight' = [inflight EXCEPT ![p] = [Idle EXCEPT !.op = "cart_post",
                                                       !.user = u]]
  /\ UNCHANGED <<ratings, converted, managers, crews, categories, menu, carts, orders, orderitems, seq>>

\* POST /api/cart/menu-items, up to the first query: does the user have a
\* Cart?  The worker p goes on to build and save one if not.
cart_post_check(p, u) ==
  /\ inflight[p] = Idle
  /\ IF CartOf(u) # {}
     THEN /\ resp' = Response("cart_post", u, 0, HTTP_400_BAD_REQUEST, <<>>)
          /\ UNCHANGED inflight
     ELSE /\ resp' = Pending
          /\ inflight' = [inflight EXCEPT ![p] = [Idle EXCEPT !.op = "cart_post",
                                                               !.user = u]]
  /\ UNCHANGED <<ratings, converted, managers, crews, categories, menu, carts, orders, orderitems, seq>>

\* the rest of the POST: read the body, look the MenuItem up, validate, save
cart_post_result(u, body) ==
  IF ~({"menuitem", "quantity"} \subseteq DOMAIN body) \/ MenuItemById(body.menuitem) = {}
  THEN [carts |-> carts, seq |-> seq,
        resp |-> Response("cart_post", u, 0, HTTP_500_SERVER_ERROR, <<>>)]
  ELSE LET unit_price == (CHOOSE m \in menu : m.id = body.menuitem).price
           data == CartPostData(u, body, unit_price)
           valid == CartSerializer_is_valid(data, Anon)
       IN IF valid = "error"
          THEN [carts |-> carts, seq |-> seq,
                resp |-> Response("cart_post", u, 0, HTTP_500_SERVER_ERROR, <<>>)]
          ELSE IF valid = "invalid"
          THEN [carts |-> carts, seq |-> seq,
                resp |-> Response("cart_post", u, 0, HTTP_400_BAD_REQUEST, <<>>)]
          ELSE [carts |-> carts \cup {CartSerializer_save(data, Anon, seq.cart)},
                seq |-> [seq EXCEPT !.cart = @ + 1],
                resp |-> Response("cart_post", u, seq.cart, HTTP_201_CREATED, <<>>)]

cart_post_save(p, body) ==
  /\ inflight[p].op = "cart_post"
  /\ seq.cart <= NumUsers + MaxSeq
  /\ LET r == cart_post_result(inflight[p].user, body)
     IN /\ carts' = r.carts
        /\ seq' = r.seq
        /\ resp' = r.resp
  /\ inflight' = [inflight EXCEPT ![p] = Idle]
  /\ UNCHANGED <<ratings, converted, managers, crews, categories, menu, orders, orderitems>>

\* DELETE /api/cart/menu-items; the answer is
\* Response(status.HTTP_204_NO_CONTENT): the 204 is the body of a 200
cart_delete(u) ==
  /\ IF CartOf(u) = {}
     THEN /\ resp' = Response("cart_delete", u, 0, HTTP_404_NOT_FOUND, <<>>)
          /\ UNCHANGED carts
     ELSE IF Cardinality(CartOf(u)) > 1
     THEN /\ resp' = Response("cart_delete", u, 0, HTTP_500_SERVER_ERROR, <<>>)
          /\ UNCHANGED carts
     ELSE /\ carts' = carts \ CartOf(u)
          /\ resp' = Response("cart_delete", u, 0, HTTP_200_OK, <<HTTP_204_NO_CONTENT>>)
  /\ UNCHANGED <<ratings, converted, managers, crews, categories, menu, orders, orderitems, seq,
                 inflight>>

\* ---------------------------------------------------------------- checkout
OrderById(id) == {o \in orders : o.id = id}

\* OrderItemSerializer.Meta.fields
OrderItemWritable == {"order", "menuitem", "quantity", "price"}
\* OrderItem's references and amounts have no default (models.py)
OrderItemRequired == {"order", "menuitem", "quantity", "price"}
\* the columns of OrderItem (models.py): there is no user column
OrderItemColumns == {"id", "order", "menuitem", "quantity", "price"}

\* OrderSerializer.Meta.fields without the read-only id and orderitem
OrderWritable == {"user", "delivery_crew", "status", "date", "total"}
\* Order.user, date and total have no default; delivery_crew is nullable and
\* status has a default (models.py)
OrderRequired == {"user", "date", "total"}
\* Order.status defaults to 0, out for delivery (models.py)
DefaultStatus == 0
\* Order.status holds 0 or 1 (models.py)
StatusValues == {0, 1}

\* an OrderSerializer that takes any number for a status
OrderValues_any_status(data) ==
  /\ Has(data, "user") => data.user \in Users
  /\ Has(data, "delivery_crew") => data.delivery_crew \in Users \cup {Null}

\* the values the fields of an Order body must hold to pass validation
OrderValues(data) ==
  /\ Has(data, "user") => data.user \in Users
  /\ Has(data, "delivery_crew") => data.delivery_crew \in Users \cup {Null}
  /\ Has(data, "status") => data.status \in StatusValues

\* an order() that names the keys as OrderItemSerializer names its fields
\* and hangs the item on the first Order
OrderItemPostData_named(cart) ==
  [order |-> 1, menuitem |-> cart.menuitem, quantity |-> cart.quantity,
   price |-> cart.price]

\* the dictionary order() builds for OrderItemSerializer
OrderItemPostData(cart) ==
  [user_id |-> cart.user, menuitem_id |-> cart.menuitem,
   quantity |-> cart.quantity, unit_price |-> cart.unit_price,
   price |-> cart.price]

\* the dictionary order() builds for OrderSerializer
OrderPostData(cart, orderitem) ==
  [user_id |-> cart.user, total |-> cart.price, orderitem_id |-> orderitem.id]

\* an OrderItemSerializer that requires nothing
OrderItemSerializer_is_valid_any(data) == TRUE

OrderItemSerializer_is_valid(data) ==
  /\ OrderItemRequired \cap OrderItemWritable \subseteq DOMAIN data
  /\ OrderById(data.order) # {}
  /\ MenuItemById(data.menuitem) # {}

OrderItemSerializer_save(data, id) ==
  [id |-> id, order |-> Field(data, "order"), menuitem |-> Field(data, "menuitem"),
   quantity |-> Field(data, "quantity"), price |-> Field(data, "price")]

OrderSerializer_is_valid(data, partial) ==
  IsValid(data, OrderRequired, partial, OrderValues(data))

OrderSerializer_save(data, id) ==
  [id |-> id, user |-> Field(data, "user"),
   delivery_crew |-> Field(data, "delivery_crew"),
   status |-> IF Has(data, "status") THEN data.status ELSE DefaultStatus,
   date |-> Field(data, "date"), total |-> Field(data, "total")]

\* POST /api/orders, up to the first query: get_object_or_404(Cart, user).
\* The worker p keeps the Cart it read.
order_post_get(p, u) ==
  /\ inflight[p] = Idle
  /\ IF CartOf(u) = {}
     THEN /\ resp' = Response("order_post", u, 0, HTTP_404_NOT_FOUND, <<>>)
          /\ UNCHANGED inflight
     ELSE IF Cardinality(CartOf(u)) > 1
     THEN /\ resp' = Response("order_post", u, 0, HTTP_500_SERVER_ERROR, <<>>)
          /\ UNCHANGED inflight
     ELSE /\ resp' = Pending
          /\ inflight' = [inflight EXCEPT ![p] =
               [Idle EXCEPT !.op = "order_post", !.user = u,
                            !.cart = CHOOSE c \in carts : c.user = u]]
  /\ UNCHANGED <<ratings, converted, managers, crews, categories, menu, carts, orders, orderitems, seq>>

\* the rest of the POST: save an OrderItem, read it back, save an Order,
\* delete the Cart; every save is committed on its own
order_post_result(u, cart) ==
  LET itemdata == OrderItemPostData(cart)
      unchanged == [orderitems |-> orderitems, orders |-> orders, carts |-> carts,
                    seq |-> seq]
  IN
  IF ~OrderItemSerializer_is_valid(itemdata)
  THEN [st |-> unchanged,
        resp |-> Response("order_post", u, 0, HTTP_400_BAD_REQUEST, <<>>)]
  ELSE
  LET saved == OrderItemSerializer_save(itemdata, seq.orderitem)
      st1 == [unchanged EXCEPT !.orderitems = orderitems \cup {saved},
                               !.seq = [seq EXCEPT !.orderitem = @ + 1]]
      found == {i \in st1.orderitems : i.menuitem = cart.menuitem}
  IN
  \* OrderItem.objects.get(user=request.user, menuitem=cart.menuitem)
  IF "user" \notin OrderItemColumns \/ Cardinality(found) # 1
  THEN [st |-> st1,
        resp |-> Response("order_post", u, 0, HTTP_500_SERVER_ERROR, <<>>)]
  ELSE
  LET orderdata == OrderPostData(cart, CHOOSE i \in found : TRUE)
  IN
  IF ~OrderSerializer_is_valid(orderdata, FALSE)
  THEN [st |-> st1,
        resp |-> Response("order_post", u, 0, HTTP_400_BAD_REQUEST, <<>>)]
  ELSE [st |-> [st1 EXCEPT !.orders = orders \cup
                                {OrderSerializer_save(orderdata, seq.order)},
                           !.carts = {c \in carts : c.id # cart.id},
                           !.seq = [st1.seq EXCEPT !.order = @ + 1]],
        resp |-> Response("order_post", u, seq.order, HTTP_201_CREATED, <<>>)]

order_post_save(p) ==
  /\ inflight[p].op = "order_post"
  /\ seq.orderitem <= MaxSeq /\ seq.order <= NumOrders + MaxSeq
  /\ LET r == order_post_result(inflight[p].user, inflight[p].cart)
     IN /\ orderitems' = r.st.orderitems
        /\ orders' = r.st.orders
        /\ carts' = r.st.carts
        /\ seq' = r.st.seq
        /\ resp' = r.resp
        /\ converted' = [converted EXCEPT ![inflight[p].cart.id] =
             [orders |-> @.orders + Cardinality(r.st.orders \ orders),
              orderitems |-> @.orderitems +
                             Cardinality(r.st.orderitems \ orderitems)]]
  /\ inflight' = [inflight EXCEPT ![p] = Idle]
  /\ UNCHANGED <<ratings, managers, crews, categories, menu>>

CartNext ==
  \/ \E u \in Users : cart_get(u)
  \/ \E p \in Procs, u \in Users : cart_post_check(p, u)
  \/ \E p \in Procs, d \in CartData : cart_post_save(p, d)
  \/ \E u \in Users : cart_delete(u)
  \/ \E p \in Procs, u \in Users : order_post_get(p, u)
  \/ \E p \in Procs : order_post_save(p)

\* ------------------------------------------------------------------ orders
\* the bodies of PATCH /api/orders/{id}: any part of delivery_crew (user 1
\* or user 2) and status (2 is no status), and the bodies of PUT
BodyTotals == {5}

OrderPatchVals == [delivery_crew |-> {1, 2}, status |-> 0..2]

\* the bodies of PUT /api/orders/{id}: full ones, which move the order to
\* user 1 and change its total, and one that lacks the required fields
OrderPutData ==
  {[user |-> 1, delivery_crew |-> 2, status |-> 1, date |-> 1, total |-> t]
     : t \in BodyTotals} \cup
  {[user |-> 1, date |-> 1, total |-> t] : t \in BodyTotals} \cup
  {[status |-> 1]}

OrderData == PartialData(OrderPatchVals) \cup OrderPutData

\* the query parameters of GET /api/orders next to the other requests on
\* orders: to_price and page, sent or not (PageQuery has the rest)
OrderQuery ==
  [to_price : {0} \cup BodyTotals, perpage : {NotSent}, page : {NotSent, 2}]

\* GET /api/orders.  A Manager gets a page of all orders, a Delivery crew
\* member the orders assigned to them.  For a customer the handler hands the
\* queryset to OrderSerializer without many=True, and reading .data raises
\* (a 500); with no order it answers Response(status.HTTP_404_NOT_FOUND), the
\* 404 being the body of a 200.
order_get(u, q) ==
  /\ resp' =
       IF IsManager(u)
       THEN LET found == {o \in orders : q.to_price # 0 => o.total <= q.to_price}
            IN IF PageRaises(PerPage(q), PageNo(q))
               THEN Listing("order_get", u, q, HTTP_500_SERVER_ERROR, <<>>)
               ELSE Listing("order_get", u, q, HTTP_200_OK,
                            Ids(Paginate(ById(found), PerPage(q), PageNo(q))))
       ELSE IF IsDeliveryCrew(u)
       THEN Listing("order_get", u, q, HTTP_200_OK,
                    Ids(ById({o \in orders : o.delivery_crew = u})))
       ELSE IF \E o \in orders : o.user = u
       THEN Listing("order_get", u, q, HTTP_500_SERVER_ERROR, <<>>)
       ELSE Listing("order_get", u, q, HTTP_200_OK, <<HTTP_404_NOT_FOUND>>)
  /\ UNCHANGED <<ratings, converted, managers, crews, categories, menu, carts, orders, orderitems,
                 seq, inflight>>

\* a PATCH that hands the whole body of a Delivery crew member to the
\* serializer
order_single_patch_full(order, u, data) ==
  IF IsDeliveryCrew(u) /\ order.delivery_crew # u
  THEN [row |-> order, status |-> HTTP_403_FORBIDDEN]
  ELSE IF IsDeliveryCrew(u) \/ IsManager(u)
  THEN IF OrderSerializer_is_valid(data, TRUE)
       THEN [row |-> Update(order, data, OrderWritable),
             status |-> HTTP_205_RESET_CONTENT]
       ELSE [row |-> order, status |-> HTTP_400_BAD_REQUEST]
  ELSE [row |-> order, status |-> HTTP_403_FORBIDDEN]

\* PATCH /api/orders/{id}: the new row and the status of the response.  The
\* Delivery crew branch comes first and keeps only the status of the body.
order_single_patch(order, u, data) ==
  IF IsDeliveryCrew(u)
  THEN IF order.delivery_crew # u
       THEN [row |-> order, status |-> HTTP_403_FORBIDDEN]
       ELSE IF ~Has(data, "status")
       THEN [row |-> order, status |-> HTTP_500_SERVER_ERROR]
       ELSE LET status_data == [status |-> data.status]
            IN IF OrderSerializer_is_valid(status_data, TRUE)
               THEN [row |-> Update(order, status_data, OrderWritable),
                     status |-> HTTP_205_RESET_CONTENT]
               ELSE [row |-> order, status |-> HTTP_400_BAD_REQUEST]
  ELSE IF IsManager(u)
  THEN IF OrderSerializer_is_valid(data, TRUE)
       THEN [row |-> Update(order, data, OrderWritable),
             status |-> HTTP_205_RESET_CONTENT]
       ELSE [row |-> order, status |-> HTTP_400_BAD_REQUEST]
  ELSE [row |-> order, status |-> HTTP_403_FORBIDDEN]

\* a PUT without the check of the requester's group
order_single_put_open(order, u, data) ==
  IF OrderSerializer_is_valid(data, FALSE)
  THEN [row |-> Update(order, data, OrderWritable), status |-> HTTP_205_RESET_CONTENT]
  ELSE [row |-> order, status |-> HTTP_400_BAD_REQUEST]

\* PUT /api/orders/{id}: a full update, for a Manager
order_single_put(order, u, data) ==
  IF ~IsManager(u)
  THEN [row |-> order, status |-> HTTP_403_FORBIDDEN]
  ELSE IF OrderSerializer_is_valid(data, FALSE)
  THEN [row |-> Update(order, data, OrderWritable), status |-> HTTP_205_RESET_CONTENT]
  ELSE [row |-> order, status |-> HTTP_400_BAD_REQUEST]

\* OrderItem.order goes with its Order (models.py)
OrderCascade(rows, id) == {r \in rows : r.order # id}

\* /api/orders/{id}.  GET is for the owner of the order; DELETE, for a
\* Manager, answers Response(status.HTTP_204_NO_CONTENT), a 200.
order_single(u, method, id, data) ==
  /\ IF OrderById(id) = {}
     THEN /\ resp' = Response("order_single_" \o method, u, id, HTTP_404_NOT_FOUND, <<>>)
          /\ UNCHANGED <<orders, orderitems>>
     ELSE LET order == CHOOSE o \in orders : o.id = id IN
       IF method = "GET"
       THEN /\ resp' = IF order.user # u
                       THEN Response("order_single_GET", u, id, HTTP_403_FORBIDDEN, <<>>)
                       ELSE Response("order_single_GET", u, id, HTTP_200_OK, <<id>>)
            /\ UNCHANGED <<orders, orderitems>>
       ELSE IF method \in {"PUT", "PATCH"}
       THEN LET r == IF method = "PUT" THEN order_single_put(order, u, data)
                     ELSE order_single_patch(order, u, data)
            IN /\ orders' = (orders \ {order}) \cup {r.row}
               /\ resp' = Response("order_single_" \o method, u, id, r.status,
                                   IF r.status = HTTP_205_RESET_CONTENT
                                   THEN <<id>> ELSE <<>>)
               /\ UNCHANGED orderitems
       ELSE IF ~IsManager(u)
       THEN /\ resp' = Response("order_single_DELETE", u, id, HTTP_403_FORBIDDEN, <<>>)
            /\ UNCHANGED <<orders, orderitems>>
       ELSE /\ orders' = orders \ {order}
            /\ orderitems' = OrderCascade(orderitems, id)
            /\ resp' = Response("order_single_DELETE", u, id, HTTP_200_OK,
                                <<HTTP_204_NO_CONTENT>>)
  /\ UNCHANGED <<ratings, converted, managers, crews, categories, menu, carts, seq, inflight>>

OrderNext ==
  \/ \E u \in Users, q \in OrderQuery : order_get(u, q)
  \/ \E u \in Users, m \in {"GET", "DELETE"}, id \in 1..(NumOrders + 1) :
       order_single(u, m, id, EmptyData)
  \/ \E u \in Users, id \in 1..(NumOrders + 1), d \in OrderPutData :
       order_single(u, "PUT", id, d)
  \/ \E u \in Users, id \in 1..(NumOrders + 1), d \in OrderData :
       order_single(u, "PATCH", id, d)

\* ----------------------------------------------------------------- ratings
\* RatingSerializer.Meta.extra_kwargs: min_value and max_value of rating
MinRating == 0
MaxRating == 5

\* RatingSerializer.Meta.fields, all of them writable
RatingWritable == {"user", "menuitem_id", "rating"}
\* Rating.menuitem_id and Rating.rating have no default (models.py)
RatingRequired == {"menuitem_id", "rating"}

\* the bodies of POST /api/ratings: any part of a user nobody is
\* (NumUsers + 1), the first MenuItem and a rating in or next to the range
RatingVals ==
  [user |-> {NumUsers + 1}, menuitem_id |-> {1},
   rating |-> {MinRating - 1, MinRating, MaxRating, MaxRating + 1}]
RatingData == PartialData(RatingVals)

\* the users who send ratings
Raters == {1, 2}

\* the field user: the body's, or else CurrentUserDefault(), the requester
RatingUser(data, ctx) == IF Has(data, "user") THEN data.user ELSE ctx

\* UniqueTogetherValidator(queryset=Rating.objects.all(),
\*                         fields=["user", "menuitem_id"])
RatingExists(user, menuitem_id) ==
  \E r \in ratings : r.user = user /\ r.menuitem_id = menuitem_id

\* a RatingSerializer without min_value and max_value
RatingSerializer_is_valid_unbounded(data, ctx) ==
  /\ RatingRequired \cap RatingWritable \subseteq DOMAIN data
  /\ RatingUser(data, ctx) \in Users
  /\ ~RatingExists(RatingUser(data, ctx), data.menuitem_id)

\* RatingSerializer(data=data, context={"request": ...}).is_valid(): the
\* fields one by one, then the validator of the pair
RatingSerializer_is_valid(data, ctx) ==
  /\ RatingRequired \cap RatingWritable \subseteq DOMAIN data
  /\ RatingUser(data, ctx) \in Users
  /\ data.rating \in MinRating..MaxRating
  /\ ~RatingExists(RatingUser(data, ctx), data.menuitem_id)

\* serializer.validated_data
RatingAttrs(data, ctx) ==
  [user |-> RatingUser(data, ctx), menuitem_id |-> data.menuitem_id,
   rating |-> data.rating]

\* a (user, menuitem) pair has one Rating (models.py): an INSERT of a second
\* one is refused by the database
RatingUnique(attrs) == ~RatingExists(attrs.user, attrs.menuitem_id)

\* the response to a POST of a rating, which remembers the data it answers
RatingResponse(user, data, status) ==
  [op |-> "ratings_post", user |-> user, id |-> 0, status |-> status,
   body |-> <<>>, data |-> data]

\* RatingsView, GET: the list of all ratings, for everybody
ratings_get(u) ==
  /\ resp' = Response("ratings_get", u, 0, HTTP_200_OK, Ids(ById(ratings)))
  /\ UNCHANGED <<ratings, converted, managers, crews, categories, menu, carts,
                 orders, orderitems, seq, inflight>>

\* RatingsView, POST, up to serializer.is_valid(raise_exception=True).
\* IsAuthenticated refuses an anonymous request with 401 or 403, as the
\* authentication classes of the settings have it.
ratings_post_validate(p, u, data) ==
  /\ inflight[p] = Idle
  /\ IF u = Anon
     THEN /\ \E st \in {HTTP_401_UNAUTHORIZED, HTTP_403_FORBIDDEN} :
               resp' = RatingResponse(u, data, st)
          /\ UNCHANGED inflight
     ELSE IF ~RatingSerializer_is_valid(data, u)
     THEN /\ resp' = RatingResponse(u, data, HTTP_400_BAD_REQUEST)
          /\ UNCHANGED inflight
     ELSE /\ resp' = Pending
          /\ inflight' = [inflight EXCEPT ![p] =
               [Idle EXCEPT !.op = "ratings_post", !.user = u,
                            !.data = RatingAttrs(data, u)]]
  /\ UNCHANGED <<ratings, converted, managers, crews, categories, menu, carts,
                 orders, orderitems, seq>>

\* the rest of the POST: serializer.save(), an INSERT
ratings_post_save(p) ==
  /\ inflight[p].op = "ratings_post"
  /\ LET u == inflight[p].user
         attrs == inflight[p].data
     IN IF RatingUnique(attrs)
        THEN /\ ratings' = ratings \cup
                  {[id |-> seq.rating, user |-> attrs.user,
                    menuitem_id |-> attrs.menuitem_id, rating |-> attrs.rating]}
             /\ seq' = [seq EXCEPT !.rating = @ + 1]
             /\ resp' = RatingResponse(u, attrs, HTTP_201_CREATED)
        ELSE /\ resp' = RatingResponse(u, attrs, HTTP_500_SERVER_ERROR)
             /\ UNCHANGED <<ratings, seq>>
  /\ inflight' = [inflight EXCEPT ![p] = Idle]
  /\ UNCHANGED <<converted, managers, crews, categories, menu, carts, orders,
                 orderitems>>

RatingNext ==
  \/ \E u \in Raters \cup {Anon} : ratings_get(u)
  \/ \E p \in Procs, u \in Raters, d \in RatingData : ratings_post_validate(p, u, d)
  \/ \E p \in Procs : ratings_post_validate(p, Anon, [menuitem_id |-> 1, rating |-> MaxRating])
  \/ \E p \in Procs : ratings_post_save(p)

\* ------------------------------------------------------------ initial rows
\* no Cart has been checked out yet
NotConverted ==
  [id \in 1..(NumUsers + MaxSeq) |-> [orders |-> 0, orderitems |-> 0]]

\* the database as the handlers find it: one Category, two MenuItems, for
\* every user no Cart or one Cart, and NumOrders orders out for delivery
CategorySeed == [id |-> 1, title |-> 1, slug |-> 1]

MenuItemSeed(i) ==
  [id |-> i, title |-> 1, price |-> i + 1, category |-> 1, featured |-> FALSE]

CartSeed(u) ==
  IF u % 2 = 1
  THEN [id |-> u, user |-> u, menuitem |-> 1, quantity |-> 1,
        unit_price |-> 2, price |-> 2]
  ELSE [id |-> u, user |-> u, menuitem |-> 2, quantity |-> MaxQty,
        unit_price |-> 3, price |-> MaxQty * 3]

OrderSeed(i) ==
  [id |-> i, user |-> NumUsers - ((i - 1) % NumUsers), delivery_crew |-> Null,
   status |-> 0, date |-> 1, total |-> 2]

InitRows ==
  /\ categories = {CategorySeed}
  /\ menu = {MenuItemSeed(1), MenuItemSeed(2)}
  /\ orders = {OrderSeed(i) : i \in 1..NumOrders}
  /\ orderitems = {}
  /\ ratings = {}
  /\ converted = NotConverted
  /\ seq = [category |-> 2, menuitem |-> 3, cart |-> NumUsers + 1,
            order |-> NumOrders + 1, orderitem |-> 1, rating |-> 1]
  /\ inflight = [p \in Procs |-> Idle]
  /\ resp = Pending

Init ==
  /\ InitRows
  /\ managers = {1}
  /\ crews = {}
  /\ \E S \in SUBSET Users : carts = {CartSeed(u) : u \in S}

Next == GroupNext \/ MenuNext \/ CartNext \/ OrderNext \/ RatingNext

Spec == Init /\ [][Next]_vars

\* the rosters alone
InitGroup == InitRows /\ managers = {1} /\ crews = {} /\ carts = {}
SpecGroup == InitGroup /\ [][GroupNext]_vars

\* categories and menu items from empty tables, under a fixed roster
InitMenu ==
  /\ categories = {}
  /\ menu = {}
  /\ orders = {}
  /\ orderitems = {}
  /\ carts = {}
  /\ ratings = {}
  /\ converted = NotConverted
  /\ seq = [category |-> 1, menuitem |-> 1, cart |-> 1, order |-> 1, orderitem |-> 1,
            rating |-> 1]
  /\ inflight = [p \in Procs |-> Idle]
  /\ resp = Pending
  /\ managers = {1}
  /\ crews = {}
SpecMenu == InitMenu /\ [][MenuNext]_vars

\* carts and checkout, NumProcs requests at a time
SpecCart == Init /\ [][CartNext]_vars

\* orders, and the Manager making user 1 or user 2 Delivery crew
OrderCrewNext ==
  \E u \in Users, n \in {1, 2} : delivery_set(u, "POST", [username |-> n])

SpecOrder == InitGroup /\ [][OrderNext \/ OrderCrewNext]_vars

\* the writers of Order.status: checkout, PUT and PATCH.  User 1, the
\* Manager, holds a Cart; user 2 is made Delivery crew and assigned orders.
\* The bodies carry the statuses 0, 1 and 2.
StatusPutData ==
  {[user |-> 1, delivery_crew |-> 2, status |-> st, date |-> 1, total |-> t]
     : st \in 0..2, t \in BodyTotals}

StatusPatchData ==
  {[status |-> st] : st \in 0..2} \cup
  {[delivery_crew |-> 2], [delivery_crew |-> 2, status |-> 2]}

InitStatus ==
  /\ InitRows
  /\ managers = {1}
  /\ crews = {}
  /\ carts = {CartSeed(1)}

StatusNext ==
  \/ \E u \in {1, 2}, id \in 1..(NumOrders + 1), d \in StatusPutData :
       order_single(u, "PUT", id, d)
  \/ \E u \in {1, 2}, id \in 1..(NumOrders + 1), d \in StatusPatchData :
       order_single(u, "PATCH", id, d)
  \/ delivery_set(1, "POST", [username |-> 2])
  \/ \E p \in Procs, u \in {1, 2} : order_post_get(p, u)
  \/ \E p \in Procs : order_post_save(p)

SpecStatus == InitStatus /\ [][StatusNext]_vars

\* the ratings, NumProcs requests at a time
SpecRating == InitGroup /\ [][RatingNext]_vars

\* the two paginated listings over tables that do not change: the
\* MenuItems and the Orders 1..n, every second one of them above the price
\* the queries ask for
PageMenuItemSeed(i) ==
  [MenuItemSeed(i) EXCEPT !.price = IF i % 2 = 1 THEN 2 ELSE 3]

PageOrderSeed(i) ==
  [OrderSeed(i) EXCEPT !.total = IF i % 2 = 1 THEN 2 ELSE 3]

\* the query parameters of the listings: to_price, perpage and page, sent
\* or not; page runs past the last page of the largest table
PageQuery ==
  [to_price : {0, 2}, perpage : {NotSent} \cup 0..MaxPerPage,
   page : {NotSent} \cup 0..(MaxItems + 1)]

InitPage ==
  /\ categories = {CategorySeed}
  /\ \E n \in 0..MaxItems :
       /\ menu = {PageMenuItemSeed(i) : i \in 1..n}
       /\ orders = {PageOrderSeed(i) : i \in 1..n}
       /\ seq = [category |-> 2, menuitem |-> n + 1, cart |-> 1,
                 order |-> n + 1, orderitem |-> 1, rating |-> 1]
  /\ orderitems = {}
  /\ carts = {}
  /\ ratings = {}
  /\ converted = NotConverted
  /\ inflight = [p \in Procs |-> Idle]
  /\ resp = Pending
  /\ managers = {1}
  /\ crews = {}

PageNext ==
  \/ \E u \in {Anon, 1}, q \in PageQuery : menuitems(u, "GET", q, EmptyData)
  \/ \E u \in Users, q \in PageQuery : order_get(u, q)

SpecPage == InitPage /\ [][PageNext]_vars

\* ================================================================== claims

\* C1: a checkout by a user who has a Cart succeeds; afterwards the user has
\* no Cart, a new Order of the user has the price of the Cart as its total,
\* and a new OrderItem carries the Cart's menuitem, quantity and price.
C1_CheckoutCreatesOrder ==
  [][\A p \in Procs :
       inflight[p].op = "order_post" /\ inflight'[p] = Idle =>
         LET u == inflight[p].user
             cart == inflight[p].cart
         IN /\ resp'.status = HTTP_201_CREATED
            /\ ~\E c \in carts' : c.user = u
            /\ \E o \in orders' \ orders : o.user = u /\ o.total = cart.price
            /\ \E i \in orderitems' \ orderitems :
                 /\ i.menuitem = cart.menuitem
                 /\ i.quantity = cart.quantity
                 /\ i.price = cart.price]_vars

\* C2: a checkout that does not answer Created (no Cart: Not Found; a
\* validation failure: Bad Request) leaves Cart, Order and OrderItem rows as
\* they were.
C2_FailedCheckoutChangesNothing ==
  [][resp'.op = "order_post" /\ resp'.status # HTTP_201_CREATED =>
       UNCHANGED <<carts, orders, orderitems>>]_vars

\* a checkout was refused for a validation failure while the user's Cart is
\* there
C2_Witness ==
  /\ resp.op = "order_post"
  /\ resp.status = HTTP_400_BAD_REQUEST
  /\ CartOf(resp.user) # {}

\* C3: a cart POST by a user who has a Cart answers Bad Request and leaves
\* the Cart rows as they were.
C3_SecondCartRefused ==
  [][resp'.op = "cart_post" /\ CartOf(resp'.user) # {} =>
       resp'.status = HTTP_400_BAD_REQUEST /\ carts' = carts]_vars

\* a cart POST was refused and the user holds the one Cart
C3_Witness ==
  /\ resp.op = "cart_post"
  /\ resp.status = HTTP_400_BAD_REQUEST
  /\ Cardinality(CartOf(resp.user)) = 1

\* C4: in every reachable state every user has at most one Cart row.
C4_AtMostOneCart == \A u \in Users : Cardinality(CartOf(u)) <= 1

\* two cart POSTs of one user are both past the look for an existing Cart
C4_Witness ==
  \E p, q \in Procs :
    /\ p # q
    /\ inflight[p].op = "cart_post"
    /\ inflight[q].op = "cart_post"
    /\ inflight[p].user = inflight[q].user

\* C5: a PATCH of an order by a Delivery crew member is Forbidden and changes
\* nothing when the order's delivery_crew is somebody else; when it is the
\* requester, at most the status of that order changes, whatever the body.
C5_DeliveryCrewPatchesStatusOnly ==
  [][resp'.op = "order_single_PATCH" /\ resp'.user \in crews
       /\ OrderById(resp'.id) # {} =>
       LET order == CHOOSE o \in orders : o.id = resp'.id
       IN IF order.delivery_crew # resp'.user
          THEN resp'.status = HTTP_403_FORBIDDEN /\ orders' = orders
          ELSE \E s \in 0..2 :
                 orders' = (orders \ {order}) \cup {[order EXCEPT !.status = s]}]_vars

\* a Delivery crew member who is no Manager has set the status of the order
\* assigned to them
C5_Witness ==
  /\ resp.op = "order_single_PATCH"
  /\ resp.status = HTTP_205_RESET_CONTENT
  /\ resp.user \in crews \ managers
  /\ \E o \in orders :
       o.id = resp.id /\ o.delivery_crew = resp.user /\ o.status = 1

\* C6: a PATCH of an existing order by a Manager is never answered with
\* Forbidden, also when the Manager is Delivery crew and the order is not
\* assigned to them.
C6_ManagerPatchNeverForbidden ==
  [][resp'.op = "order_single_PATCH" /\ resp'.user \in managers
       /\ OrderById(resp'.id) # {} =>
       resp'.status # HTTP_403_FORBIDDEN]_vars

C8_OrderListByRole ==
  [][resp'.op = "order_get" =>
       /\ resp'.status = HTTP_200_OK
       /\ resp'.user \in managers /\ resp'.id = 0 => resp'.body = Ids(ById(orders))
       /\ resp'.user \in crews \ managers =>
            resp'.body = Ids(ById({o \in orders : o.delivery_crew = resp'.user}))
       /\ resp'.user \notin managers \cup crews =>
            resp'.body = Ids(ById({o \in orders : o.user = resp'.user}))]_vars

\* C9: a POST on the categories or the menu items, and a PUT, PATCH or
\* DELETE on an existing Category or MenuItem, by a requester who is no
\* Manager is Forbidden and leaves the Category and MenuItem rows as they
\* were.
C9_NonManagerCannotChangeMenu ==
  [][(/\ resp'.user \notin managers
      /\ \/ resp'.op \in {"category_POST", "menuitems_POST"}
         \/ /\ resp'.op \in {"category_single_PUT", "category_single_PATCH",
                             "category_single_DELETE"}
            /\ CategoryById(resp'.id) # {}
         \/ /\ resp'.op \in {"menuitems_single_PUT", "menuitems_single_PATCH",
                             "menuitems_single_DELETE"}
            /\ MenuItemById(resp'.id) # {})
     => /\ resp'.status = HTTP_403_FORBIDDEN
        /\ categories' = categories
        /\ menu' = menu]_vars

\* a DELETE of an existing MenuItem by a user who is no Manager was refused
C9_Witness ==
  /\ resp.op = "menuitems_single_DELETE"
  /\ resp.status = HTTP_403_FORBIDDEN
  /\ resp.user \in Users \ managers
  /\ MenuItemById(resp.id) # {}

\* C10: the rosters of the two groups change only in a step of a Manager; a
\* list, add or remove by anybody else is Forbidden and leaves both rosters
\* as they were.
C10_OnlyManagerChangesRosters ==
  [][/\ (managers' # managers \/ crews' # crews) => resp'.user \in managers
     /\ (/\ resp'.op \in {"manager_set", "manager_delete", "delivery_set",
                          "delivery_delete"}
         /\ resp'.user \notin managers)
        => /\ resp'.status = HTTP_403_FORBIDDEN
           /\ managers' = managers
           /\ crews' = crews]_vars

\* the rosters have changed, and an add to the managers by a Delivery crew
\* member was refused
C10_Witness ==
  /\ resp.op = "manager_set"
  /\ resp.status = HTTP_403_FORBIDDEN
  /\ resp.user \in crews \ managers
  /\ resp.id = 0

\* C11: a listing of the menu items, or of the orders for a Manager, asked
\* for page number page (1 when not sent, counted from 1) of pages of perpage
\* rows (2 when not sent, at least 1) answers 200 with exactly the rows at the
\* positions (page-1)*perpage+1 .. page*perpage of the filtered result in its
\* order: the rows of a page within range, no row for a page past the last.
C11_PageHoldsItsPositions ==
  [][(\/ resp'.op = "menuitems_GET"
      \/ resp'.op = "order_get" /\ resp'.user \in managers) =>
       LET q == resp'.query
           perpage == IF q.perpage = NotSent THEN 2 ELSE q.perpage
           page == IF q.page = NotSent THEN 1 ELSE q.page
           rows == IF resp'.op = "menuitems_GET"
                   THEN ById({m \in menu : q.to_price # 0 => m.price <= q.to_price})
                   ELSE ById({o \in orders : q.to_price # 0 => o.total <= q.to_price})
           first == (page - 1) * perpage + 1
           last == IF page * perpage < Len(rows) THEN page * perpage ELSE Len(rows)
       IN perpage >= 1 /\ page >= 1 =>
            /\ resp'.status = HTTP_200_OK
            /\ resp'.body = [i \in 1..(last - first + 1) |-> rows[first + i - 1].id]]_vars

\* a Manager asked for a page past the last page of orders that pass the
\* filter, and got the empty list with status 200
C11_Witness ==
  /\ resp.op = "order_get"
  /\ resp.user \in managers
  /\ resp.query.perpage >= 1
  /\ resp.query.to_price # 0
  /\ LET found == {o \in orders : o.total <= resp.query.to_price}
     IN /\ found # {}
        /\ (resp.query.page - 1) * resp.query.perpage >= Cardinality(found)
  /\ resp.status = HTTP_200_OK
  /\ resp.body = <<>>

C13_StatusIsZeroOrOne == \A o \in orders : o.status \in {0, 1}

\* an order has been set delivered, and a PATCH of it by a Manager or its
\* Delivery crew member, with a status that is neither 0 nor 1, was answered
\* Bad Request
C13_Witness ==
  /\ resp.op = "order_single_PATCH"
  /\ resp.status = HTTP_400_BAD_REQUEST
  /\ resp.user \in managers \cup crews
  /\ \E o \in orders : o.id = resp.id /\ o.status = 1

\* C14: from one Cart row the checkouts write at most one Order and at most
\* one OrderItem, however the requests interleave; two checkouts of one user
\* may both have read the Cart before either goes on.
C14_CartConvertedAtMostOnce ==
  \A id \in DOMAIN converted :
    converted[id].orders <= 1 /\ converted[id].orderitems <= 1

\* two checkouts of one user have both read the user's Cart, which is still
\* there
C14_Witness ==
  \E p, q \in Procs :
    /\ p # q
    /\ inflight[p].op = "order_post"
    /\ inflight[q].op = "order_post"
    /\ inflight[p].cart = inflight[q].cart
    /\ inflight[p].cart \in carts

====
